---------------------------- MODULE Spec2Model ----------------------------
(***************************************************************************)
(* A model of yzx.mjs, the script-loading front end: the format resolver  *)
(* (importPath, writeAndImport, scriptFromStdin, the top-level handler)    *)
(* and the literate extractor (transformMarkdown).                         *)
(*                                                                         *)
(* Text is a sequence of one-character strings, so that the regular        *)
(* expressions, split("\n") and join("\n") are computed, not assumed.      *)
(***************************************************************************)
EXTENDS Naturals, Sequences, FiniteSets, TLC

VARIABLES
    source,           \* transformMarkdown: the argument
    lines,            \* transformMarkdown: source.split("\n")
    lineNo,           \* transformMarkdown: number of lines the loop has consumed
    state,            \* transformMarkdown: let state
    prevLineIsEmpty,  \* transformMarkdown: let prevLineIsEmpty
    output,           \* transformMarkdown: let output
    mdPc,             \* transformMarkdown: "call" | "loop" | "done"
    mdResult,         \* transformMarkdown: the returned string
    argv,             \* the command line: [version, firstArg]
    stdin,            \* process.stdin: [isTTY, data]
    fs,               \* the filesystem: absolute path -> entry (file with data, or directory)
    tasks,            \* the async function invocations, in order of creation
    globals,          \* global.__filename and global.__dirname
    log,              \* the calls made to the collaborators (filesystem, compiler, loader)
    proc              \* the process: running, exited (code, report) or crashed

mdVars == <<source, lines, lineNo, state, prevLineIsEmpty, output, mdPc, mdResult>>
rsVars == <<argv, stdin, fs, tasks, globals, log, proc>>
vars == <<source, lines, lineNo, state, prevLineIsEmpty, output, mdPc, mdResult,
          argv, stdin, fs, tasks, globals, log, proc>>

-----------------------------------------------------------------------------
(* Bounds *)

\* the longest document (in lines) the extractor is run on
MaxLines == 4
\* the most async function invocations one run may create
MaxTasks == 6

-----------------------------------------------------------------------------
(* Text *)

NL == "\n"
\* the grave accent, which a TLA+ string cannot hold: one character, written by its code point
Bt == "U+0060"
Fence == <<Bt, Bt, Bt>>
Sp4 == <<" ", " ", " ", " ">>
Tab == <<"\t">>
Cmt == <<"/", "/", " ">>
\* "await $" followed by a grave accent
AwaitShell == <<"a", "w", "a", "i", "t", " ", "$", Bt>>

\* characters the regular-expression dot does not match
LineTerminators == {"\n", "\r"}

StartsWith(s, p) == Len(s) >= Len(p) /\ SubSeq(s, 1, Len(p)) = p

\* String.prototype.split("\n"): always at least one piece
RECURSIVE SplitFrom(_, _, _)
SplitFrom(s, i, cur) ==
    IF i > Len(s) THEN <<cur>>
    ELSE IF s[i] = NL THEN <<cur>> \o SplitFrom(s, i + 1, <<>>)
    ELSE SplitFrom(s, i + 1, Append(cur, s[i]))

Split(s) == SplitFrom(s, 1, <<>>)

\* Array.prototype.join("\n")
RECURSIVE Join(_)
Join(ls) ==
    IF Len(ls) = 0 THEN <<>>
    ELSE IF Len(ls) = 1 THEN ls[1]
    ELSE ls[1] \o <<NL>> \o Join(Tail(ls))

-----------------------------------------------------------------------------
(* The regular expressions of transformMarkdown *)

\* /^( {4}|\t)/
ReIndented(line) == StartsWith(line, Sp4) \/ StartsWith(line, Tab)

\* /^(3 grave accents)(js|javascript)$/
ReFenceJs(line) ==
    \/ line = Fence \o <<"j", "s">>
    \/ line = Fence \o <<"j", "a", "v", "a", "s", "c", "r", "i", "p", "t">>

\* /^(3 grave accents)(sh|bash)$/
ReFenceSh(line) ==
    \/ line = Fence \o <<"s", "h">>
    \/ line = Fence \o <<"b", "a", "s", "h">>

\* /^(3 grave accents).*$/
ReFenceAny(line) ==
    /\ StartsWith(line, Fence)
    /\ \A i \in 4..Len(line) : line[i] \notin LineTerminators

\* /^( +|\t)/
ReStillIndented(line) == StartsWith(line, <<" ">>) \/ StartsWith(line, Tab)

\* /^(3 grave accents)$/
ReFenceClose(line) == line = Fence

-----------------------------------------------------------------------------
(* transformMarkdown: one result per switch case, [out, state, prev] *)

\* a slip: the command-block opener carries its own line break
CaseRootOpenerWithNewline(line, prev) ==
    IF ReIndented(line) /\ prev
    THEN [out |-> line, state |-> "tab", prev |-> prev]
    ELSE IF ReFenceJs(line)
    THEN [out |-> <<>>, state |-> "js", prev |-> prev]
    ELSE IF ReFenceSh(line)
    THEN [out |-> AwaitShell \o <<NL>>, state |-> "bash", prev |-> prev]
    ELSE IF ReFenceAny(line)
    THEN [out |-> <<>>, state |-> "other", prev |-> prev]
    ELSE [out |-> Cmt \o line, state |-> "root", prev |-> (line = <<>>)]

\* a slip: a blank prose line is kept blank instead of being commented
CaseRootBlankKept(line, prev) ==
    IF ReIndented(line) /\ prev
    THEN [out |-> line, state |-> "tab", prev |-> prev]
    ELSE IF ReFenceJs(line)
    THEN [out |-> <<>>, state |-> "js", prev |-> prev]
    ELSE IF ReFenceSh(line)
    THEN [out |-> AwaitShell, state |-> "bash", prev |-> prev]
    ELSE IF ReFenceAny(line)
    THEN [out |-> <<>>, state |-> "other", prev |-> prev]
    ELSE IF line = <<>>
    THEN [out |-> <<>>, state |-> "root", prev |-> TRUE]
    ELSE [out |-> Cmt \o line, state |-> "root", prev |-> FALSE]

CaseRoot(line, prev) ==
    IF ReIndented(line) /\ prev
    THEN [out |-> line, state |-> "tab", prev |-> prev]
    ELSE IF ReFenceJs(line)
    THEN [out |-> <<>>, state |-> "js", prev |-> prev]
    ELSE IF ReFenceSh(line)
    THEN [out |-> AwaitShell, state |-> "bash", prev |-> prev]
    ELSE IF ReFenceAny(line)
    THEN [out |-> <<>>, state |-> "other", prev |-> prev]
    ELSE [out |-> Cmt \o line, state |-> "root", prev |-> (line = <<>>)]

\* a slip: the line that ends an indented block goes through the prose rules again
CaseTabReruns(line, prev) ==
    IF ReStillIndented(line)
    THEN [out |-> line, state |-> "tab", prev |-> prev]
    ELSE IF line = <<>>
    THEN [out |-> <<>>, state |-> "tab", prev |-> prev]
    ELSE CaseRoot(line, prev)

CaseTab(line, prev) ==
    IF ReStillIndented(line)
    THEN [out |-> line, state |-> "tab", prev |-> prev]
    ELSE IF line = <<>>
    THEN [out |-> <<>>, state |-> "tab", prev |-> prev]
    ELSE [out |-> Cmt \o line, state |-> "root", prev |-> prev]

\* a slip: the closing test lacks its end anchor, so any fence marker closes the block
CaseJsCloseUnanchored(line, prev) ==
    IF StartsWith(line, Fence)
    THEN [out |-> <<>>, state |-> "root", prev |-> prev]
    ELSE [out |-> line, state |-> "js", prev |-> prev]

CaseJs(line, prev) ==
    IF ReFenceClose(line)
    THEN [out |-> <<>>, state |-> "root", prev |-> prev]
    ELSE [out |-> line, state |-> "js", prev |-> prev]

\* a slip: the fence that closes a command block is blanked, the literal is left open
CaseBashClosesBlank(line, prev) ==
    IF ReFenceClose(line)
    THEN [out |-> <<>>, state |-> "root", prev |-> prev]
    ELSE [out |-> line, state |-> "bash", prev |-> prev]

CaseBash(line, prev) ==
    IF ReFenceClose(line)
    THEN [out |-> <<Bt>>, state |-> "root", prev |-> prev]
    ELSE [out |-> line, state |-> "bash", prev |-> prev]

\* a slip: the lines of a block with an unknown tag are emitted as they are
CaseOtherVerbatim(line, prev) ==
    IF ReFenceClose(line)
    THEN [out |-> <<>>, state |-> "root", prev |-> prev]
    ELSE [out |-> line, state |-> "other", prev |-> prev]

CaseOther(line, prev) ==
    IF ReFenceClose(line)
    THEN [out |-> <<>>, state |-> "root", prev |-> prev]
    ELSE [out |-> Cmt \o line, state |-> "other", prev |-> prev]

\* the switch (state) of the loop body
SwitchState(st, line, prev) ==
    CASE st = "root" -> CaseRoot(line, prev)
      [] st = "tab" -> CaseTab(line, prev)
      [] st = "js" -> CaseJs(line, prev)
      [] st = "bash" -> CaseBash(line, prev)
      [] st = "other" -> CaseOther(line, prev)

\* the loop of transformMarkdown over ls[i..], from cursor [state, prev, output]
RECURSIVE MdLoop(_, _, _)
MdLoop(ls, i, cur) ==
    IF i > Len(ls) THEN cur
    ELSE LET r == SwitchState(cur.state, ls[i], cur.prev)
         IN MdLoop(ls, i + 1,
                   [state |-> r.state, prev |-> r.prev, output |-> Append(cur.output, r.out)])

MdStart == [state |-> "root", prev |-> TRUE, output |-> <<>>]

\* transformMarkdown(source), as a function of the text
transformMarkdown(src) == Join(MdLoop(Split(src), 1, MdStart).output)

States == {"root", "tab", "js", "bash", "other"}

-----------------------------------------------------------------------------
(* The documents the extractor is run on *)

Hello == <<"h", "e", "l", "l", "o">>
SomeText == <<"S", "o", "m", "e", " ", "t", "e", "x", "t">>
MoreText == <<"m", "o", "r", "e", " ", "t", "e", "x", "t">>
IndentedCode == Sp4 \o <<"i", "n", "d", "e", "n", "t", "e", "d", " ", "c", "o", "d", "e">>

LineAlphabet ==
    { <<>>,                                 \* blank
      Hello,                                \* prose
      IndentedCode,                         \* four spaces
      Tab \o <<"x">>,                       \* a tab
      <<" ", "y">>,                         \* one space
      Fence,                                \* bare fence
      Fence \o <<"j", "s">>,
      Fence \o <<"j", "a", "v", "a", "s", "c", "r", "i", "p", "t">>,
      Fence \o <<"s", "h">>,
      Fence \o <<"b", "a", "s", "h">>,
      Fence \o <<"p", "y">> }               \* a tag that is not recognised

DocsOfLen(n) == [1..n -> LineAlphabet]

\* Scenario 1 ("hello\n") and Scenario 2 of the testable properties
Scenario1 == <<Hello, <<>>>>
Scenario2 == <<SomeText, <<>>, IndentedCode, MoreText>>

Documents == (UNION {DocsOfLen(n) : n \in 1..MaxLines}) \cup {Scenario1, Scenario2}

-----------------------------------------------------------------------------
(* transformMarkdown, line by line *)

MdStartState ==
    /\ source \in {Join(d) : d \in Documents}
    /\ lines = <<>>
    /\ lineNo = 0
    /\ state = "root"
    /\ prevLineIsEmpty = TRUE
    /\ output = <<>>
    /\ mdPc = "call"
    /\ mdResult = <<>>

\* for (let line of source.split("\n"))
MdSplit ==
    /\ mdPc = "call"
    /\ lines' = Split(source)
    /\ mdPc' = "loop"
    /\ UNCHANGED rsVars
    /\ UNCHANGED <<source, lineNo, state, prevLineIsEmpty, output, mdResult>>

\* one turn of the loop: the switch on state, then the next line
MdLine ==
    /\ mdPc = "loop"
    /\ lineNo < Len(lines)
    /\ LET r == SwitchState(state, lines[lineNo + 1], prevLineIsEmpty)
       IN /\ output' = Append(output, r.out)
          /\ state' = r.state
          /\ prevLineIsEmpty' = r.prev
    /\ lineNo' = lineNo + 1
    /\ UNCHANGED rsVars
    /\ UNCHANGED <<source, lines, mdPc, mdResult>>

MdRoot == state = "root" /\ MdLine

MdTab == state = "tab" /\ MdLine

MdJs == state = "js" /\ MdLine

MdBash == state = "bash" /\ MdLine

MdOther == state = "other" /\ MdLine

\* return output.join("\n")
MdReturn ==
    /\ mdPc = "loop"
    /\ lineNo = Len(lines)
    /\ mdResult' = Join(output)
    /\ mdPc' = "done"
    /\ UNCHANGED rsVars
    /\ UNCHANGED <<source, lines, lineNo, state, prevLineIsEmpty, output>>

MdNext == MdSplit \/ MdRoot \/ MdTab \/ MdJs \/ MdBash \/ MdOther \/ MdReturn

-----------------------------------------------------------------------------
(* Paths: [abs, dir, base]. dir is the sequence of directory names, base the   *)
(* sequence of name tokens of the last component, "." being a token of its own *)

Dot == "."
NoExt == <<>>
ExtMjs == <<Dot, "mjs">>
ExtMd == <<Dot, "md">>
ExtTs == <<Dot, "ts">>
ExtJs == <<Dot, "js">>

CwdDir == <<"home", "user">>
TmpDir == <<"tmp">>

\* Math.random().toString(36).substr(2), and the six characters fs.mkdtemp appends
RandomNames == {"k3j9"}
Suffixes == {"aB3xYz"}

NoPath == [abs |-> FALSE, dir |-> <<>>, base |-> <<>>]
NoDir == [abs |-> FALSE, dir |-> <<>>]

MaxOf(S) == CHOOSE x \in S : \A y \in S : y <= x

\* path.extname: from the last "." of the last component, unless that is its first character
extname(p) ==
    LET dots == {i \in 2..Len(p.base) : p.base[i] = Dot}
    IN IF dots = {} THEN NoExt ELSE SubSeq(p.base, MaxOf(dots), Len(p.base))

basename(p) == p.base
dirname(p) == [abs |-> p.abs, dir |-> p.dir]
join(d, b) == [abs |-> d.abs, dir |-> d.dir, base |-> b]
parse(p) == [dir |-> dirname(p),
             name |-> SubSeq(p.base, 1, Len(p.base) - Len(extname(p)))]
resolve(p) == IF p.abs THEN p ELSE [abs |-> TRUE, dir |-> CwdDir \o p.dir, base |-> p.base]
tmpdir == [abs |-> TRUE, dir |-> TmpDir]
cwd == [abs |-> TRUE, dir |-> CwdDir]

-----------------------------------------------------------------------------
(* The filesystem *)

File(data) == [kind |-> "file", data |-> data]
Directory == [kind |-> "dir", data |-> <<>>]

IsFile(f, p) == p \in DOMAIN f /\ f[p].kind = "file"
IsDir(f, p) == p \in DOMAIN f /\ f[p].kind = "dir"
Put(f, p, e) == [q \in (DOMAIN f) \cup {p} |-> IF q = p THEN e ELSE f[q]]
Remove(f, p) == [q \in (DOMAIN f) \ {p} |-> f[q]]

\* an operation that can succeed may still fail (an I/O error); one that cannot, fails
Outcomes(canSucceed) == IF canSucceed THEN BOOLEAN ELSE {FALSE}

\* what the external compiler writes for a source text
Tsc(data) == <<"/*tsc*/">> \o data

-----------------------------------------------------------------------------
(* Async function invocations *)

NoErr == [type |-> "none", op |-> "none", path |-> NoPath]
IOError(op, p) == [type |-> "IOError", op |-> op, path |-> p]
Thrown(type, p) == [type |-> type, op |-> "import", path |-> p]

Task(fn, pc, filepath, origin, script, child) ==
    [fn |-> fn, pc |-> pc, filepath |-> filepath, origin |-> origin, script |-> script,
     child |-> child, status |-> "pending", err |-> NoErr, value |-> FALSE]

Fulfil(ts, t, v) == [ts EXCEPT ![t].status = "fulfilled", ![t].pc = "done", ![t].value = v]
Reject(ts, t, e) == [ts EXCEPT ![t].status = "rejected", ![t].pc = "done", ![t].err = e]
\* return await child / return child: settle as the child settled
SettleAs(ts, t, c) ==
    IF ts[c].status = "fulfilled" THEN Fulfil(ts, t, ts[c].value) ELSE Reject(ts, t, ts[c].err)

Settled(t) == tasks[t].status # "pending"

LogEntry(op, p, to, ok) == [op |-> op, path |-> p, to |-> to, ok |-> ok]

Running == proc.status = "running"
Exit(code, report, e) == [status |-> "exited", code |-> code, report |-> report, err |-> e]
Crash(e) == [status |-> "crashed", code |-> 1, report |-> "uncaught", err |-> e]

\* an await whose promise has settled: its continuation is a microtask, and microtasks
\* run before the completion of any further I/O is delivered
ContinuationReady ==
    \E t \in DOMAIN tasks :
        /\ tasks[t].status = "pending"
        /\ tasks[t].pc \in {"m_stdin", "m_import", "sf_wai", "wi_wait", "ip_wai", "ip_compile", "ip_retwait"}
        /\ tasks[tasks[t].child].status # "pending"

\* the completion of an I/O call can be delivered
IoTurn == Running /\ ~ContinuationReady

\* the machine state the synchronous part of a call changes
Here == [tasks |-> tasks, globals |-> globals, log |-> log]

\* a slip: whatever is not the executable extension is read as a raw script
BranchUnknownAsRaw(ext) ==
    IF ext = ExtMd THEN "md"
    ELSE IF ext = ExtTs THEN "ts"
    ELSE IF ext = ExtMjs THEN "load"
    ELSE "raw"

\* a slip: a file without extension is taken for a literate document
BranchRawAsMd(ext) ==
    IF ext = NoExt \/ ext = ExtMd THEN "md"
    ELSE IF ext = ExtTs THEN "ts"
    ELSE "load"

\* importPath: which branch an extension takes
Branch(ext) ==
    IF ext = NoExt THEN "raw"
    ELSE IF ext = ExtMd THEN "md"
    ELSE IF ext = ExtTs THEN "ts"
    ELSE "load"

\* importPath(filepath, origin) up to its first await: the read of the file is issued,
\* or compile() has started the compiler, or the globals are bound and import() is in flight
CallImportPath(S, filepath, origin) ==
    LET n == Len(S.tasks) + 1
        b == Branch(extname(filepath))
    IN IF b \in {"raw", "md"}
       THEN [S EXCEPT !.tasks = Append(@, Task("importPath", "ip_read", filepath, origin, <<>>, 0))]
       ELSE IF b = "ts"
       THEN [S EXCEPT !.tasks = @ \o <<Task("importPath", "ip_compile", filepath, origin, <<>>, n + 1),
                                      Task("compile", "c_tsc", filepath, NoPath, <<>>, 0)>>]
       ELSE LET filename == resolve(origin)
            IN [tasks |-> Append(S.tasks, Task("importPath", "ip_import", filepath, origin, <<>>, 0)),
                globals |-> [filename |-> filename, dirname |-> dirname(filename)],
                log |-> Append(S.log, LogEntry("import", filepath, filename, TRUE))]

\* a slip: the origin is not passed on, so it defaults to the file written
CallWriteAndImportDefaultOrigin(S, script, filepath, origin) ==
    [S EXCEPT !.tasks = Append(@, Task("writeAndImport", "wi_write", filepath, filepath, script, 0))]

\* writeAndImport(script, filepath, origin) up to its first await: fs.writeFile is issued
CallWriteAndImport(S, script, filepath, origin) ==
    [S EXCEPT !.tasks = Append(@, Task("writeAndImport", "wi_write", filepath, origin, script, 0))]

\* a slip: the origin is removed instead of the file written
RmTargetOrigin(task) == task.origin

\* line 85: what writeAndImport removes
RmTarget(task) == task.filepath
\* a slip: the artifact keeps an extension that needs transforming again
ArtifactPathMd(filepath) == join(dirname(filepath), basename(filepath) \o ExtMd)

\* the artifact of the extensionless and .md branches
ArtifactPath(filepath) == join(dirname(filepath), basename(filepath) \o ExtMjs)
\* the .ts branch: the compiler's output and the file it is renamed to
TscOutput(filepath) == join(parse(filepath).dir, parse(filepath).name \o ExtJs)
OutFile(filepath) == join(parse(filepath).dir, parse(filepath).name \o ExtMjs)
StdinOrigin == join(cwd, <<"stdin">> \o ExtMjs)

\* a slip: the compiler's output is removed under the name it had before the rename
TsRmTargetBeforeRename(filepath) == TscOutput(filepath)

\* line 111: what the .ts branch removes
TsRmTarget(filepath) == OutFile(filepath)

-----------------------------------------------------------------------------
(* The top level *)

\* lines 27-51: the version flag, then stdin or the path given
Main ==
    /\ Running
    /\ tasks[1].pc = "m_start"
    /\ Len(tasks) + 2 <= MaxTasks
    /\ IF argv.version
       THEN /\ proc' = Exit(0, "version", NoErr)
            /\ UNCHANGED <<tasks, globals, log>>
       ELSE IF argv.firstArg.form \in {"undefined", "dash"}
       THEN /\ tasks' =
                 LET sfs == Task("scriptFromStdin", "sf_stdin", NoPath, NoPath, <<>>, 0)
                     ts == Append([tasks EXCEPT ![1].pc = "m_stdin", ![1].child = 2], sfs)
                 IN IF stdin.isTTY THEN Fulfil(ts, 2, FALSE) ELSE ts
            /\ UNCHANGED <<proc, globals, log>>
       ELSE LET arg == argv.firstArg
                filepath == IF arg.form = "abs" THEN arg.path
                            ELSE IF arg.form = "url" THEN arg.path
                            ELSE resolve(arg.path)
                S == CallImportPath([Here EXCEPT !.tasks[1].pc = "m_import", !.tasks[1].child = 2],
                                    filepath, filepath)
            IN /\ tasks' = S.tasks
               /\ globals' = S.globals
               /\ log' = S.log
               /\ UNCHANGED proc
    /\ UNCHANGED mdVars
    /\ UNCHANGED <<argv, stdin, fs>>

\* lines 36-40 and 50: the awaited call returned
MainAwait ==
    /\ Running
    /\ tasks[1].pc \in {"m_stdin", "m_import"}
    /\ tasks[tasks[1].child].status = "fulfilled"
    /\ IF tasks[1].pc = "m_stdin" /\ ~tasks[tasks[1].child].value
       THEN /\ proc' = Exit(2, "usage", NoErr)
            /\ UNCHANGED tasks
       ELSE /\ tasks' = Fulfil(tasks, 1, TRUE)
            /\ UNCHANGED proc
    /\ UNCHANGED mdVars
    /\ UNCHANGED <<argv, stdin, fs, globals, log>>

\* lines 52-59: catch (p)
MainCatch ==
    /\ Running
    /\ tasks[1].pc \in {"m_stdin", "m_import"}
    /\ tasks[tasks[1].child].status = "rejected"
    /\ LET p == tasks[tasks[1].child].err
       IN proc' = IF p.type = "ProcessOutput" THEN Exit(1, "Error: message", p) ELSE Crash(p)
    /\ UNCHANGED mdVars
    /\ UNCHANGED <<argv, stdin, fs, tasks, globals, log>>

\* the module body has completed and nothing is in flight: the process ends
EventLoopEmpty ==
    /\ Running
    /\ tasks[1].status = "fulfilled"
    /\ \A t \in DOMAIN tasks : Settled(t)
    /\ proc' = Exit(0, "none", NoErr)
    /\ UNCHANGED mdVars
    /\ UNCHANGED <<argv, stdin, fs, tasks, globals, log>>

-----------------------------------------------------------------------------
(* scriptFromStdin *)

\* lines 63-73: stdin has been read to its end
StdinRead ==
    \E t \in DOMAIN tasks, r \in RandomNames :
        /\ IoTurn
        /\ tasks[t].pc = "sf_stdin"
        /\ tasks[t].status = "pending"
        /\ tasks' = IF Len(stdin.data) > 0
                    THEN [tasks EXCEPT ![t].pc = "sf_mkdtemp", ![t].script = stdin.data,
                                       ![t].filepath = join(tmpdir, <<r>> \o ExtMjs)]
                    ELSE Fulfil(tasks, t, FALSE)
        /\ UNCHANGED mdVars
        /\ UNCHANGED <<argv, stdin, fs, globals, log, proc>>

\* lines 74-75: fs.mkdtemp(filepath) makes a directory named filepath plus six characters
Mkdtemp ==
    \E t \in DOMAIN tasks, sfx \in Suffixes, ok \in BOOLEAN :
        /\ IoTurn
        /\ tasks[t].pc = "sf_mkdtemp"
        /\ Len(tasks) + 2 <= MaxTasks
        /\ LET made == [tasks[t].filepath EXCEPT !.base = @ \o <<sfx>>]
           IN IF ok
              THEN /\ fs' = Put(fs, made, Directory)
                   /\ log' = Append(log, LogEntry("mkdtemp", made, NoPath, TRUE))
                   /\ tasks' = CallWriteAndImport(
                                  [Here EXCEPT !.tasks[t].pc = "sf_wai",
                                               !.tasks[t].child = Len(tasks) + 1],
                                  tasks[t].script, tasks[t].filepath, StdinOrigin).tasks
              ELSE /\ fs' = fs
                   /\ log' = Append(log, LogEntry("mkdtemp", made, NoPath, FALSE))
                   /\ tasks' = Reject(tasks, t, IOError("mkdtemp", made))
        /\ UNCHANGED mdVars
        /\ UNCHANGED <<argv, stdin, globals, proc>>

\* lines 75-76: writeAndImport has settled
StdinDone ==
    \E t \in DOMAIN tasks :
        /\ Running
        /\ tasks[t].pc = "sf_wai"
        /\ Settled(tasks[t].child)
        /\ tasks' = IF tasks[tasks[t].child].status = "fulfilled"
                    THEN Fulfil(tasks, t, TRUE)
                    ELSE Reject(tasks, t, tasks[tasks[t].child].err)
        /\ UNCHANGED mdVars
        /\ UNCHANGED <<argv, stdin, fs, globals, log, proc>>

-----------------------------------------------------------------------------
(* writeAndImport *)

\* lines 83-85: the write has completed; importPath is started and fs.rm is issued
WriteFile ==
    \E t \in DOMAIN tasks, ok \in BOOLEAN :
        /\ IoTurn
        /\ tasks[t].pc = "wi_write"
        /\ Len(tasks) + 2 <= MaxTasks
        /\ ok \in Outcomes(~IsDir(fs, tasks[t].filepath))
        /\ IF ok
           THEN LET S == CallImportPath(
                            [Here EXCEPT !.tasks[t].pc = "wi_rm",
                                         !.tasks[t].child = Len(tasks) + 1,
                                         !.log = Append(@, LogEntry("writeFile", tasks[t].filepath, NoPath, TRUE))],
                            tasks[t].filepath, tasks[t].origin)
                IN /\ fs' = Put(fs, tasks[t].filepath, File(tasks[t].script))
                   /\ tasks' = S.tasks
                   /\ globals' = S.globals
                   /\ log' = S.log
           ELSE /\ fs' = fs
                /\ globals' = globals
                /\ log' = Append(log, LogEntry("writeFile", tasks[t].filepath, NoPath, FALSE))
                /\ tasks' = Reject(tasks, t, IOError("writeFile", tasks[t].filepath))
        /\ UNCHANGED mdVars
        /\ UNCHANGED <<argv, stdin, proc>>

\* lines 85-86: fs.rm has completed; then the pending importPath is awaited
WriteAndImportRm ==
    \E t \in DOMAIN tasks, ok \in BOOLEAN :
        /\ IoTurn
        /\ tasks[t].pc = "wi_rm"
        /\ ok \in Outcomes(IsFile(fs, RmTarget(tasks[t])))
        /\ IF ok
           THEN /\ fs' = Remove(fs, RmTarget(tasks[t]))
                /\ tasks' = [tasks EXCEPT ![t].pc = "wi_wait"]
           ELSE /\ fs' = fs
                /\ tasks' = Reject(tasks, t, IOError("rm", RmTarget(tasks[t])))
        /\ log' = Append(log, LogEntry("rm", RmTarget(tasks[t]), NoPath, ok))
        /\ UNCHANGED mdVars
        /\ UNCHANGED <<argv, stdin, globals, proc>>

\* line 86: await wait
WriteAndImportWait ==
    \E t \in DOMAIN tasks :
        /\ Running
        /\ tasks[t].pc = "wi_wait"
        /\ Settled(tasks[t].child)
        /\ tasks' = SettleAs(tasks, t, tasks[t].child)
        /\ UNCHANGED mdVars
        /\ UNCHANGED <<argv, stdin, fs, globals, log, proc>>

-----------------------------------------------------------------------------
(* importPath *)

\* lines 91-104: fs.readFile has completed; writeAndImport is called
ReadFile ==
    \E t \in DOMAIN tasks, ok \in BOOLEAN :
        /\ IoTurn
        /\ tasks[t].pc = "ip_read"
        /\ Len(tasks) + 2 <= MaxTasks
        /\ ok \in Outcomes(IsFile(fs, tasks[t].filepath))
        /\ LET filepath == tasks[t].filepath
           IN IF ok
              THEN LET data == fs[filepath].data
                       script == IF Branch(extname(filepath)) = "md"
                                 THEN transformMarkdown(data)
                                 ELSE data
                   IN /\ tasks' = CallWriteAndImport(
                                     [Here EXCEPT !.tasks[t].pc = "ip_wai",
                                                  !.tasks[t].child = Len(tasks) + 1],
                                     script, ArtifactPath(filepath), tasks[t].origin).tasks
                      /\ log' = Append(log, LogEntry("readFile", filepath, NoPath, TRUE))
              ELSE /\ tasks' = Reject(tasks, t, IOError("readFile", filepath))
                   /\ log' = Append(log, LogEntry("readFile", filepath, NoPath, FALSE))
        /\ UNCHANGED mdVars
        /\ UNCHANGED <<argv, stdin, fs, globals, proc>>

\* lines 92 and 99: return await writeAndImport(...)
ImportPathReturn ==
    \E t \in DOMAIN tasks :
        /\ Running
        /\ tasks[t].pc = "ip_wai"
        /\ Settled(tasks[t].child)
        /\ tasks' = SettleAs(tasks, t, tasks[t].child)
        /\ UNCHANGED mdVars
        /\ UNCHANGED <<argv, stdin, fs, globals, log, proc>>

\* a slip: compile() is not awaited, the rename is issued at once
CompiledWithoutAwait ==
    \E t \in DOMAIN tasks :
        /\ Running
        /\ tasks[t].pc = "ip_compile"
        /\ tasks' = [tasks EXCEPT ![t].pc = "ip_rename"]
        /\ UNCHANGED mdVars
        /\ UNCHANGED <<argv, stdin, fs, globals, log, proc>>

\* lines 108-109: compile() has returned; fs.rename is issued
Compiled ==
    \E t \in DOMAIN tasks :
        /\ Running
        /\ tasks[t].pc = "ip_compile"
        /\ tasks[tasks[t].child].status = "fulfilled"
        /\ tasks' = [tasks EXCEPT ![t].pc = "ip_rename"]
        /\ UNCHANGED mdVars
        /\ UNCHANGED <<argv, stdin, fs, globals, log, proc>>

\* lines 109-111: the rename has completed; importPath is started and fs.rm is issued
Rename ==
    \E t \in DOMAIN tasks, ok \in BOOLEAN :
        /\ IoTurn
        /\ tasks[t].pc = "ip_rename"
        /\ Len(tasks) + 2 <= MaxTasks
        /\ LET filepath == tasks[t].filepath
               from == TscOutput(filepath)
               outFile == OutFile(filepath)
           IN /\ ok \in Outcomes(IsFile(fs, from) /\ ~IsDir(fs, outFile))
              /\ IF ok
                 THEN LET S == CallImportPath(
                                  [Here EXCEPT !.tasks[t].pc = "ip_rm",
                                               !.tasks[t].child = Len(tasks) + 1,
                                               !.log = Append(@, LogEntry("rename", from, outFile, TRUE))],
                                  outFile, filepath)
                      IN /\ fs' = Put(Remove(fs, from), outFile, fs[from])
                         /\ tasks' = S.tasks
                         /\ globals' = S.globals
                         /\ log' = S.log
                 ELSE /\ fs' = fs
                      /\ globals' = globals
                      /\ log' = Append(log, LogEntry("rename", from, outFile, FALSE))
                      /\ tasks' = Reject(tasks, t, IOError("rename", from))
        /\ UNCHANGED mdVars
        /\ UNCHANGED <<argv, stdin, proc>>

\* lines 111-112: fs.rm(outFile) has completed; then return wait
ImportPathRm ==
    \E t \in DOMAIN tasks, ok \in BOOLEAN :
        /\ IoTurn
        /\ tasks[t].pc = "ip_rm"
        /\ LET outFile == TsRmTarget(tasks[t].filepath)
           IN /\ ok \in Outcomes(IsFile(fs, outFile))
              /\ IF ok
                 THEN /\ fs' = Remove(fs, outFile)
                      /\ tasks' = [tasks EXCEPT ![t].pc = "ip_retwait"]
                 ELSE /\ fs' = fs
                      /\ tasks' = Reject(tasks, t, IOError("rm", outFile))
              /\ log' = Append(log, LogEntry("rm", outFile, NoPath, ok))
        /\ UNCHANGED mdVars
        /\ UNCHANGED <<argv, stdin, globals, proc>>

\* line 112: return wait
ImportPathReturnWait ==
    \E t \in DOMAIN tasks :
        /\ Running
        /\ tasks[t].pc = "ip_retwait"
        /\ Settled(tasks[t].child)
        /\ tasks' = SettleAs(tasks, t, tasks[t].child)
        /\ UNCHANGED mdVars
        /\ UNCHANGED <<argv, stdin, fs, globals, log, proc>>

\* line 117: the module loader, in flight, reads the file it was given
LoaderRead ==
    \E t \in DOMAIN tasks :
        /\ IoTurn
        /\ tasks[t].pc = "ip_import"
        /\ LET filepath == tasks[t].filepath
               found == IsFile(fs, filepath)
           IN /\ tasks' = IF found
                          THEN [tasks EXCEPT ![t].pc = "ip_run", ![t].script = fs[filepath].data]
                          ELSE Reject(tasks, t, Thrown("ModuleNotFound", filepath))
              /\ log' = Append(log, LogEntry("load", filepath, NoPath, found))
        /\ UNCHANGED mdVars
        /\ UNCHANGED <<argv, stdin, fs, globals, proc>>

\* line 117: the module runs: it completes, or throws an error or a ProcessOutput
LoaderRun ==
    \E t \in DOMAIN tasks, outcome \in {"ok", "Error", "ProcessOutput"} :
        /\ IoTurn
        /\ tasks[t].pc = "ip_run"
        /\ tasks' = IF outcome = "ok"
                    THEN Fulfil(tasks, t, TRUE)
                    ELSE Reject(tasks, t, Thrown(outcome, tasks[t].filepath))
        /\ log' = Append(log, LogEntry("run", tasks[t].filepath, NoPath, outcome = "ok"))
        /\ UNCHANGED mdVars
        /\ UNCHANGED <<argv, stdin, fs, globals, proc>>

-----------------------------------------------------------------------------
(* compile *)

\* a slip: a failure of the compiler is caught and the chain carries on
TscDoneCarriesOn ==
    \E t \in DOMAIN tasks, ok \in BOOLEAN, emitted \in BOOLEAN :
        /\ IoTurn
        /\ tasks[t].pc = "c_tsc"
        /\ LET input == tasks[t].filepath
               canEmit == IsFile(fs, input) /\ ~IsDir(fs, TscOutput(input))
           IN /\ ok \in Outcomes(canEmit)
              /\ ok => emitted
              /\ emitted => canEmit
              /\ fs' = IF emitted THEN Put(fs, TscOutput(input), File(Tsc(fs[input].data))) ELSE fs
              /\ log' = Append(log, LogEntry("tsc", input, NoPath, ok))
              /\ tasks' = Fulfil(tasks, t, TRUE)
              /\ UNCHANGED proc
        /\ UNCHANGED mdVars
        /\ UNCHANGED <<argv, stdin, globals>>

\* lines 186-200: the compiler has ended; on failure the error is printed and the process exits
TscDone ==
    \E t \in DOMAIN tasks, ok \in BOOLEAN, emitted \in BOOLEAN :
        /\ IoTurn
        /\ tasks[t].pc = "c_tsc"
        /\ LET input == tasks[t].filepath
               canEmit == IsFile(fs, input) /\ ~IsDir(fs, TscOutput(input))
           IN /\ ok \in Outcomes(canEmit)
              /\ ok => emitted
              /\ emitted => canEmit
              /\ fs' = IF emitted THEN Put(fs, TscOutput(input), File(Tsc(fs[input].data))) ELSE fs
              /\ log' = Append(log, LogEntry("tsc", input, NoPath, ok))
              /\ IF ok
                 THEN /\ tasks' = Fulfil(tasks, t, TRUE)
                      /\ UNCHANGED proc
                 ELSE /\ proc' = Exit(1, "compile error", IOError("tsc", input))
                      /\ UNCHANGED tasks
        /\ UNCHANGED mdVars
        /\ UNCHANGED <<argv, stdin, globals>>

-----------------------------------------------------------------------------
(* The runs of the resolver *)

Contents == {Join(Scenario1), Join(<<Fence \o <<"j", "s">>, Hello, Fence>>)}
OldData == <<"o", "l", "d">>

Bases ==
    { <<"script">>,
      <<Dot, "profile">>,
      <<"script">> \o ExtMd,
      <<"script">> \o ExtTs,
      <<"script">> \o ExtMjs,
      <<"script">> \o ExtJs,
      <<"script", Dot, "xyz">> }

AbsPaths == {[abs |-> TRUE, dir |-> CwdDir, base |-> b] : b \in Bases}
RelPaths == {[abs |-> FALSE, dir |-> <<>>, base |-> b] : b \in Bases}

FirstArgs ==
    {[form |-> "abs", path |-> p] : p \in AbsPaths}
    \cup {[form |-> "url", path |-> p] : p \in AbsPaths}
    \cup {[form |-> "rel", path |-> p] : p \in RelPaths}

NoArg == [form |-> "undefined", path |-> NoPath]
DashArg == [form |-> "dash", path |-> NoPath]

NoStdin == [isTTY |-> TRUE, data |-> <<>>]
EmptyFs == [p \in {} |-> Directory]

\* the files a resolution of filepath writes besides its input
Siblings(filepath) ==
    LET b == Branch(extname(filepath))
    IN IF b \in {"raw", "md"} THEN {ArtifactPath(filepath)}
       ELSE IF b = "ts" THEN {OutFile(filepath)}
       ELSE {}

FilesystemsFor(filepath) ==
    LET withInput == {Put(EmptyFs, filepath, File(c)) : c \in Contents} \cup {EmptyFs}
    IN withInput
       \cup {[q \in (DOMAIN f) \cup Siblings(filepath) |->
                 IF q \in Siblings(filepath) THEN File(OldData) ELSE f[q]] : f \in withInput}

RsIdle ==
    /\ argv = [version |-> TRUE, firstArg |-> NoArg]
    /\ stdin = NoStdin
    /\ fs = EmptyFs
    /\ tasks = <<>>
    /\ globals = [filename |-> NoPath, dirname |-> NoDir]
    /\ log = <<>>
    /\ proc = Exit(0, "none", NoErr)

MdIdle ==
    /\ source = <<>>
    /\ lines = <<>>
    /\ lineNo = 0
    /\ state = "root"
    /\ prevLineIsEmpty = TRUE
    /\ output = <<>>
    /\ mdPc = "done"
    /\ mdResult = <<>>

RsInit ==
    /\ \/ /\ argv \in {[version |-> TRUE, firstArg |-> a] : a \in {NoArg, CHOOSE x \in FirstArgs : TRUE}}
          /\ stdin = NoStdin
          /\ fs = EmptyFs
       \/ /\ argv \in {[version |-> FALSE, firstArg |-> a] : a \in {NoArg, DashArg}}
          /\ stdin \in {NoStdin} \cup {[isTTY |-> FALSE, data |-> d] : d \in Contents \cup {<<>>}}
          /\ fs = EmptyFs
       \/ /\ argv \in {[version |-> FALSE, firstArg |-> a] : a \in FirstArgs}
          /\ stdin = NoStdin
          /\ fs \in FilesystemsFor(IF argv.firstArg.form = "rel"
                                   THEN resolve(argv.firstArg.path) ELSE argv.firstArg.path)
    /\ tasks = <<Task("main", "m_start", NoPath, NoPath, <<>>, 0)>>
    /\ globals = [filename |-> NoPath, dirname |-> NoDir]
    /\ log = <<>>
    /\ proc = [status |-> "running", code |-> 0, report |-> "none", err |-> NoErr]

Init == RsInit /\ MdIdle

Next ==
    \/ Main \/ MainAwait \/ MainCatch \/ EventLoopEmpty
    \/ StdinRead \/ Mkdtemp \/ StdinDone
    \/ WriteFile \/ WriteAndImportRm \/ WriteAndImportWait
    \/ ReadFile \/ ImportPathReturn \/ Compiled \/ Rename \/ ImportPathRm
    \/ ImportPathReturnWait \/ LoaderRead \/ LoaderRun \/ TscDone

Spec == Init /\ [][Next]_vars

\* every step is the completion of an I/O call or the continuation of an await
FairSpec == Spec /\ WF_vars(Next)

\* transformMarkdown alone, on every document of the bounded set
MdInit == MdStartState /\ RsIdle

SpecMd == MdInit /\ [][MdNext]_vars

-----------------------------------------------------------------------------
(* Properties of transformMarkdown, under SpecMd *)

MdDone == mdPc = "done"

\* C4: transformMarkdown emits exactly one output line per input line: while the loop
\* runs the output holds as many lines as were consumed, and the returned text, split
\* on newline, has as many lines as the input split on newline.
C4_LineCount ==
    /\ mdPc = "loop" => Len(output) = lineNo
    /\ MdDone => Len(Split(mdResult)) = Len(Split(source))

C4_Witness ==
    /\ MdDone
    /\ Len(Split(source)) >= 3
    /\ mdResult # source
    /\ \E i \in DOMAIN output : output[i] = AwaitShell

\* A document read as text alone: a line starting with the fence marker opens a block
\* when none is open, and the bare marker closes the open one.
RECURSIVE FenceOpenAfter(_, _, _)
FenceOpenAfter(ls, i, open) ==
    IF i > Len(ls) THEN open
    ELSE FenceOpenAfter(ls, i + 1,
                        IF open THEN ls[i] # Fence ELSE StartsWith(ls[i], Fence))

WellFormed(ls) == ~FenceOpenAfter(ls, 1, FALSE)

\* the extractor's state after the first k lines
StateAfter(ls, k) == MdLoop(SubSeq(ls, 1, k), 1, MdStart).state

EntersIndentedBlock(ls) == \E k \in 1..Len(ls) : StateAfter(ls, k) = "tab"

Scenario1Claimed == Cmt \o Hello \o <<NL>>
\* "// Some text\n\n    indented code\n// more text", the output Scenario 2 names
Scenario2Claimed == Cmt \o SomeText \o <<NL>> \o <<NL>> \o IndentedCode \o <<NL>> \o Cmt \o MoreText
\* "// hello\n// "
Scenario1Output == Cmt \o Hello \o <<NL>> \o Cmt
\* "// Some text\n// \n    indented code\n// more text"
Scenario2Output ==
    Cmt \o SomeText \o <<NL>> \o Cmt \o <<NL>> \o IndentedCode \o <<NL>> \o Cmt \o MoreText

\* a document of prose alone: no line starts a fence or is indented
ProseOnly(ls) == \A i \in DOMAIN ls : ~StartsWith(ls[i], Fence) /\ ~ReIndented(ls[i])

\* C8 as claimed: in prose state a blank line stays a blank output line and a non-blank
\* line L becomes "// " + L; "hello\n" gives "// hello\n" and Scenario 2 gives
\* "// Some text\n\n    indented code\n// more text".
C8_Prose_Claimed ==
    MdDone =>
        /\ ProseOnly(lines) =>
              \A i \in DOMAIN lines :
                  output[i] = IF lines[i] = <<>> THEN <<>> ELSE Cmt \o lines[i]
        /\ source = Join(Scenario1) => mdResult = Scenario1Claimed
        /\ source = Join(Scenario2) => mdResult = Scenario2Claimed

\* C8 as amended: in prose state every line L that opens no block, the blank line
\* included, becomes "// " + L (a blank line becomes "// "); "hello\n" gives
\* "// hello\n// " and Scenario 2 gives "// Some text\n// \n    indented code\n// more text".
C8_Prose ==
    MdDone =>
        /\ ProseOnly(lines) => \A i \in DOMAIN lines : output[i] = Cmt \o lines[i]
        /\ source = Join(Scenario1) => mdResult = Scenario1Output
        /\ source = Join(Scenario2) => mdResult = Scenario2Output

C8_Witness == MdDone /\ source = Join(Scenario2) /\ mdResult = Scenario2Output

-----------------------------------------------------------------------------
(* Properties of the resolver, under Spec and FairSpec *)

\* the path the command line names, made absolute
InputPath == [abs |-> TRUE, dir |-> CwdDir, base |-> argv.firstArg.path.base]

FromStdin == argv.firstArg.form \in {"undefined", "dash"}

\* the origin the run starts from
LogicalOrigin == IF FromStdin THEN StdinOrigin ELSE InputPath

\* the files the resolution has created: written by writeAndImport, or renamed to by the .ts branch
Materialized ==
    {log[i].path : i \in {j \in DOMAIN log : log[j].op = "writeFile" /\ log[j].ok}}
    \cup {log[i].to : i \in {j \in DOMAIN log : log[j].op = "rename" /\ log[j].ok}}

RmCalls(p) == {i \in DOMAIN log : log[i].op = "rm" /\ log[i].path = p}
RmDone(p) == {i \in RmCalls(p) : log[i].ok}

\* the call the top level awaits (importPath or scriptFromStdin) has returned or failed
ResolutionSettled == Len(tasks) >= 2 /\ tasks[2].status # "pending"

ConsumerFailed ==
    /\ ResolutionSettled
    /\ tasks[2].status = "rejected"
    /\ tasks[2].err.type \in {"Error", "ProcessOutput", "ModuleNotFound"}

C2_ReadBeforeDelete ==
    \A i \in DOMAIN log : (log[i].op = "load" /\ log[i].path \in Materialized) => log[i].ok

\* a path whose extension is none of "", .md, .ts, .mjs
UnknownExtension ==
    /\ ~argv.version
    /\ ~FromStdin
    /\ extname(InputPath) \notin {NoExt, ExtMd, ExtTs, ExtMjs}

C6_OriginBound ==
    \A i \in DOMAIN log :
        log[i].op = "import" =>
            /\ log[i].to = LogicalOrigin
            /\ globals.filename = LogicalOrigin
            /\ globals.dirname = [abs |-> TRUE, dir |-> CwdDir]

C6_Witness ==
    \E i \in DOMAIN log :
        /\ log[i].op = "import"
        /\ log[i].path \in Materialized
        /\ log[i].path # LogicalOrigin

C9_Shrinks ==
    /\ \A t \in DOMAIN tasks :
          (t > 2 /\ tasks[t].fn = "importPath") => extname(tasks[t].filepath) = ExtMjs
    /\ Cardinality({t \in DOMAIN tasks : tasks[t].fn = "importPath"}) <= 2

C9_Terminates == []C9_Shrinks /\ <>(~Running)

C9_Witness ==
    /\ ~Running
    /\ \E t \in DOMAIN tasks : t > 2 /\ tasks[t].fn = "importPath" /\ tasks[t].pc = "done"

\* C10: once the process has ended, a ProcessOutput raised by running the final module has
\* been reported by the top-level handler as "Error: <message>" with exit status 1, and a
\* failure reported that way is a ProcessOutput; any other failure is rethrown as it was.
C10_ExecutionError ==
    ~Running =>
        /\ \A t \in DOMAIN tasks :
              (tasks[t].fn = "importPath" /\ tasks[t].err.type = "ProcessOutput") =>
                  proc = Exit(1, "Error: message", tasks[t].err)
        /\ proc.report = "Error: message" => proc.err.type = "ProcessOutput"
        /\ proc.status = "crashed" => (proc.err = tasks[2].err /\ proc.err.type # "ProcessOutput")

CompilerRuns == {i \in DOMAIN log : log[i].op = "tsc"}
CompilerFailed == \E i \in CompilerRuns : ~log[i].ok

\* C11: if the external compiler fails for a .ts input, the process exits with a non-zero
\* status: the compiler is not invoked again, its output is not renamed, and the module
\* loader is never invoked for that resolution.
C11_CompileFailure ==
    CompilerFailed =>
        /\ proc.status = "exited"
        /\ proc.code # 0
        /\ proc.report = "compile error"
        /\ Cardinality(CompilerRuns) = 1
        /\ \A i \in DOMAIN log : log[i].op \notin {"rename", "import", "load", "run", "rm"}
        /\ \A t \in DOMAIN tasks : tasks[t].fn = "importPath" => tasks[t].pc = "ip_compile"

\* the compiler failed after it had written its output
C11_Witness ==
    /\ CompilerFailed
    /\ extname(InputPath) = ExtTs
    /\ TscOutput(InputPath) \in DOMAIN fs
    /\ ~Running

\* the command line names a path without extension
RawInput == ~argv.version /\ ~FromStdin /\ extname(InputPath) = NoExt

ScriptRanWithoutError == \E i \in DOMAIN log : log[i].op = "run" /\ log[i].ok

\* an extensionless input: the artifact written and the text the loader reads are the raw
\* content of the input, and the artifact goes to the loader as it is
RawArtifact ==
    /\ \A t \in DOMAIN tasks :
          tasks[t].fn = "writeAndImport" =>
              /\ tasks[t].filepath = ArtifactPath(InputPath)
              /\ tasks[t].script = fs[InputPath].data
    /\ \A t \in DOMAIN tasks :
          (tasks[t].fn = "importPath" /\ t > 2) =>
              /\ tasks[t].filepath = ArtifactPath(InputPath)
              /\ Branch(extname(tasks[t].filepath)) = "load"
              /\ tasks[t].script \in {<<>>, fs[InputPath].data}
              /\ (\E i \in DOMAIN log : log[i].op = "load" /\ log[i].ok) =>
                     tasks[t].script = fs[InputPath].data
    /\ \A i \in DOMAIN log :
          (log[i].op = "writeFile" /\ log[i].ok /\ ArtifactPath(InputPath) \in DOMAIN fs
             /\ RmCalls(ArtifactPath(InputPath)) = {}) =>
                 fs[ArtifactPath(InputPath)] = fs[InputPath]

\* C12 as claimed: for an extensionless path the artifact holds exactly the raw content of
\* the input (the extractor is not applied), it is loaded as it is, and resolution succeeds
\* whenever the script ran without error.
C12_RawScript_Claimed ==
    RawInput =>
        /\ RawArtifact
        /\ (ResolutionSettled /\ ScriptRanWithoutError) => tasks[2].status = "fulfilled"

\* C12 as amended: for an extensionless path the artifact holds exactly the raw content of
\* the input (the extractor is not applied) and it is loaded as it is; when the script ran
\* without error resolution succeeds, unless fs.rm of the artifact failed: then it fails
\* with that I/O error.
C12_RawScript ==
    RawInput =>
        /\ RawArtifact
        /\ (ResolutionSettled /\ ScriptRanWithoutError) =>
               \/ tasks[2].status = "fulfilled"
               \/ /\ tasks[2].status = "rejected"
                  /\ tasks[2].err = IOError("rm", ArtifactPath(InputPath))

\* a raw script that the extractor would have changed ran and resolution succeeded
C12_Witness ==
    /\ RawInput
    /\ ResolutionSettled
    /\ ScriptRanWithoutError
    /\ tasks[2].status = "fulfilled"
    /\ transformMarkdown(fs[InputPath].data) # fs[InputPath].data
    /\ \E t \in DOMAIN tasks : tasks[t].fn = "importPath" /\ t > 2 /\ tasks[t].script = fs[InputPath].data

\* the positions in the log of the successful calls of an operation on a path
Done(op, p) == {i \in DOMAIN log : log[i].op = op /\ log[i].ok /\ log[i].path = p}
RenamedTo(p) == {i \in DOMAIN log : log[i].op = "rename" /\ log[i].ok /\ log[i].to = p}

TsInput == ~argv.version /\ ~FromStdin /\ extname(InputPath) = ExtTs

\* C13: the steps of a resolution are sequential. The recursive importPath on an artifact
\* starts only after the write of that artifact has completed; for a .ts input fs.rename
\* is issued only after the compiler has ended well, and the recursive importPath starts,
\* and fs.rm of the output is issued, only after the rename has completed.
C13_Sequential ==
    /\ \A i \in DOMAIN log :
          (log[i].op = "import" /\ log[i].path # InputPath) =>
              \E j \in 1..(i - 1) : j \in Done("writeFile", log[i].path) \cup RenamedTo(log[i].path)
    /\ \A t \in DOMAIN tasks :
          tasks[t].pc \in {"wi_rm", "wi_wait"} => Done("writeFile", tasks[t].filepath) # {}
    /\ \A t \in DOMAIN tasks :
          tasks[t].pc = "ip_rename" => Done("tsc", InputPath) # {}
    /\ \A i \in DOMAIN log :
          log[i].op = "rename" => \E k \in 1..(i - 1) : k \in Done("tsc", InputPath)
    /\ \A t \in DOMAIN tasks :
          tasks[t].pc \in {"ip_rm", "ip_retwait"} => RenamedTo(OutFile(tasks[t].filepath)) # {}
    /\ TsInput =>
          \A i \in DOMAIN log :
              log[i].op \in {"import", "load", "rm"} =>
                  /\ log[i].path = OutFile(InputPath)
                  /\ \E j \in 1..(i - 1) : j \in RenamedTo(log[i].path)

\* a .ts input went through the compiler, the rename, the load and the removal
C13_Witness ==
    /\ TsInput
    /\ \E i, j \in DOMAIN log :
          /\ log[i].op = "import"
          /\ log[j].op = "rm"
          /\ log[j].ok
          /\ log[i].path = OutFile(InputPath)
          /\ log[j].path = OutFile(InputPath)

-----------------------------------------------------------------------------
(* More properties of transformMarkdown, under SpecMd *)

\* C14: in prose state a line that starts with four spaces or a tab is emitted verbatim
\* and enters the indented block if and only if the input line just before it was blank
\* or it is the first line of the document; otherwise it is commented and the state stays
\* prose. This holds after any earlier lines, also right after a fenced block closes and
\* right after an indented block ends.
C14_IndentRule ==
    MdDone =>
        \A k \in DOMAIN lines :
            (StateAfter(lines, k - 1) = "root" /\ ReIndented(lines[k])) =>
                IF k = 1 \/ lines[k - 1] = <<>>
                THEN output[k] = lines[k] /\ StateAfter(lines, k) = "tab"
                ELSE output[k] = Cmt \o lines[k] /\ StateAfter(lines, k) = "root"

\* the half of the rule that holds: after a blank line, or as the first line, an indented
\* line met in prose state always enters the block
C14_BlankBeforeEnters ==
    MdDone =>
        \A k \in DOMAIN lines :
            (StateAfter(lines, k - 1) = "root" /\ ReIndented(lines[k]) /\ (k = 1 \/ lines[k - 1] = <<>>)) =>
                output[k] = lines[k] /\ StateAfter(lines, k) = "tab"

\* the tags of the claims, and the fence marker lines that carry them
JsTags == {<<"j", "s">>, <<"j", "a", "v", "a", "s", "c", "r", "i", "p", "t">>}
ShTags == {<<"s", "h">>, <<"b", "a", "s", "h">>}
Tagged(tags) == {Fence \o tag : tag \in tags}
IsFenceMarker(line) == StartsWith(line, Fence)

\* no bare fence among lines k+1 .. j-1
NoCloseBetween(ls, k, j) == \A m \in (k + 1)..(j - 1) : ls[m] # Fence

\* the block opened at line k in prose state: the opening fence is emitted as opener and
\* the state becomes st; up to and including the first bare fence after it, the bare
\* fence is emitted as closer and returns to prose, any other line as a comment or verbatim, staying in st
BlockAt(ls, k, st, opener, closer, commented) ==
    /\ output[k] = opener
    /\ StateAfter(ls, k) = st
    /\ \A j \in (k + 1)..Len(ls) :
          NoCloseBetween(ls, k, j) =>
              IF ls[j] = Fence
              THEN output[j] = closer /\ StateAfter(ls, j) = "root"
              ELSE /\ output[j] = (IF commented THEN Cmt \o ls[j] ELSE ls[j])
                   /\ StateAfter(ls, j) = st

\* C15: a fenced block opened in prose state. Tag js or javascript: the opening fence and
\* the bare closing fence each become a blank line, the lines between are emitted verbatim.
\* Tag sh or bash: the opening fence becomes "await $" and a grave accent, the bare closing
\* fence becomes a grave accent, the lines between are emitted verbatim, unescaped. After the
\* bare closing fence the state is prose.
C15_FencedBlocks ==
    MdDone =>
        \A k \in DOMAIN lines :
            StateAfter(lines, k - 1) = "root" =>
                /\ lines[k] \in Tagged(JsTags) => BlockAt(lines, k, "js", <<>>, <<>>, FALSE)
                /\ lines[k] \in Tagged(ShTags) => BlockAt(lines, k, "bash", AwaitShell, <<Bt>>, FALSE)

\* a command block that holds a line with grave accents, closed, and a script block
C15_Witness ==
    /\ MdDone
    /\ \E k \in DOMAIN lines :
          /\ k + 2 <= Len(lines)
          /\ StateAfter(lines, k - 1) = "root"
          /\ lines[k] \in Tagged(ShTags)
          /\ IsFenceMarker(lines[k + 1])
          /\ output[k + 1] = lines[k + 1]
          /\ lines[k + 2] = Fence
          /\ output[k + 2] = <<Bt>>
          /\ StateAfter(lines, k + 2) = "root"

Fenced == {"js", "bash", "other"}

\* C16: a fence marker opens a block only in prose state. Inside a fenced block a tagged
\* fence marker is content of the block (verbatim in js and bash, commented in other) and
\* only the bare fence changes the state; in the indented block a fence marker is emitted
\* as a comment and the state returns to prose, no block is opened.
C16_NoNestedFences ==
    MdDone =>
        \A k \in DOMAIN lines :
            LET before == StateAfter(lines, k - 1)
                after == StateAfter(lines, k)
            IN /\ (after \in Fenced /\ after # before) =>
                      (before = "root" /\ IsFenceMarker(lines[k]))
               /\ before \in Fenced =>
                      /\ (after # before) <=> (lines[k] = Fence)
                      /\ after \in {before, "root"}
                      /\ (IsFenceMarker(lines[k]) /\ lines[k] # Fence) =>
                             output[k] = (IF before = "other" THEN Cmt \o lines[k] ELSE lines[k])
               /\ (before = "tab" /\ IsFenceMarker(lines[k])) =>
                      (output[k] = Cmt \o lines[k] /\ after = "root")

\* a tagged fence inside a fenced block, and a fence marker ending an indented block
C16_Witness ==
    /\ MdDone
    /\ \E k \in DOMAIN lines :
          /\ StateAfter(lines, k - 1) = "tab"
          /\ lines[k] \in Tagged(JsTags)
          /\ StateAfter(lines, k) = "root"
    /\ \E k \in DOMAIN lines :
          /\ StateAfter(lines, k - 1) \in Fenced
          /\ lines[k] \in Tagged(ShTags)
          /\ StateAfter(lines, k) = StateAfter(lines, k - 1)

\* a fence marker whose tag is empty or none of js, javascript, sh, bash
OtherFence(line) == IsFenceMarker(line) /\ line \notin Tagged(JsTags \cup ShTags)

-----------------------------------------------------------------------------
(* More properties of the resolver, under Spec *)

\* the files the resolution itself has created: those it materialized, and the output
\* the compiler wrote for it
Created ==
    Materialized \cup {TscOutput(log[i].path) : i \in {j \in DOMAIN log : log[j].op = "tsc" /\ log[j].ok}}

\* C18: no step of a resolution overwrites, renames or deletes a file that the resolution
\* did not create itself: a file that existed before, such as name.mjs next to name or
\* name.ts, and the input file, stay in place with the content they had.
C18_NoClobber ==
    [][\A p \in DOMAIN fs : p \notin Created => (p \in DOMAIN fs' /\ fs'[p] = fs[p])]_vars

\* the half that holds: the input file itself is never changed
C18_InputUnchanged ==
    [][(~FromStdin /\ InputPath \in DOMAIN fs) => (InputPath \in DOMAIN fs' /\ fs'[InputPath] = fs[InputPath])]_vars

\* the loads that are in flight
LoadInFlight == {t \in DOMAIN tasks : tasks[t].pc \in {"ip_import", "ip_run"}}

\* C19: writeAndImport, and the .ts branch of importPath, never settle before the
\* importPath they started has settled, also when fs.rm fails: no consumer is left
\* unobserved, and no load is in flight once resolution has reported its outcome.
C19_SettlesAfterConsumer ==
    /\ \A t \in DOMAIN tasks :
          (tasks[t].fn \in {"writeAndImport", "importPath"} /\ Settled(t) /\ tasks[t].child # 0) =>
              Settled(tasks[t].child)
    /\ ResolutionSettled => LoadInFlight = {}

\* the half that holds: when fs.rm succeeds, the call settles as its consumer settled
C19_WhenRmSucceeds ==
    \A t \in DOMAIN tasks :
        (tasks[t].fn \in {"writeAndImport", "importPath"} /\ Settled(t) /\ tasks[t].child # 0
           /\ tasks[t].err.op # "rm") =>
               Settled(tasks[t].child)

\* the entries of the filesystem under the temp directory
UnderTmp == {p \in DOMAIN fs : p.dir = TmpDir}

StdinScript == ~argv.version /\ FromStdin /\ ~stdin.isTTY /\ Len(stdin.data) > 0

\* C20: when a non-empty script is read from stdin, every entry scriptFromStdin created
\* under the temp directory, the one fs.mkdtemp made and the script file, has been removed
\* by the time scriptFromStdin returns or fails.
C20_StdinCleanup == (StdinScript /\ ResolutionSettled) => UnderTmp = {}

\* the half that holds: the script file is removed unless fs.rm of it failed
C20_ScriptFileRemoved ==
    (StdinScript /\ ResolutionSettled) =>
        \A p \in UnderTmp : IsDir(fs, p) \/ (\E i \in RmCalls(p) : ~log[i].ok)

=============================================================================
